---- MODULE Spec2Model ----
(***************************************************************************)
(* ADC1 -> DMA1 stream 0 -> BUFFER one-shot acquisition, followed by DC    *)
(* removal (normalize_slice), a real FFT and the report of the bin         *)
(* magnitudes, as written in src/main.rs.                                  *)
(*                                                                         *)
(* The CPU is one sequential process whose position in main is pc.  The    *)
(* DMA stream and the ADC are a second, hardware, process (DmaBeat) that   *)
(* runs concurrently with the CPU once the stream is enabled and the       *)
(* conversion is started.                                                  *)
(*                                                                         *)
(* f32 values are modelled bit-exactly for the operations the program      *)
(* applies to them (integer widening, +, -, /): a value is m * 2^e with a  *)
(* 24-bit significand, results are rounded to nearest, ties to even.  The  *)
(* exponent range of f32 (overflow, subnormals) is not modelled: every     *)
(* value in the model lies between 2^-60 and 2^60 in magnitude.            *)
(***************************************************************************)
EXTENDS Integers, Sequences, FiniteSets, TLC

\* const SIZE: usize = 1024
SIZE == 1024

\* rfft_1024 returns SIZE / 2 complex bins
HalfSize == SIZE \div 2

\* significand width of f32
MantBits == 24

\* full scale of a u16 sample
U16Max == 65535

(***************************************************************************)
(* f32 arithmetic                                                          *)
(***************************************************************************)
Pow2(n) == 2 ^ n

Abs(x) == IF x < 0 THEN -x ELSE x

RECURSIVE BitLen(_)
BitLen(n) == IF n = 0 THEN 0 ELSE 1 + BitLen(n \div 2)

\* the one element of a singleton set; The({F(x) : x \in {e}}) is F(e), with
\* e evaluated once
The(S) == CHOOSE x \in S : TRUE

Zero == [m |-> 0, e |-> 0]

NaN == [m |-> 0, e |-> 1]

\* M of nb > MantBits bits is cut to MantBits bits, to nearest, ties to even
RoundCut(sg, M, e, sh) ==
    The({ IF q1 = Pow2(MantBits)
          THEN [m |-> sg * Pow2(MantBits - 1), e |-> e + sh + 1]
          ELSE [m |-> sg * q1, e |-> e + sh] :
          q1 \in { IF M % Pow2(sh) > Pow2(sh - 1)
                      \/ (M % Pow2(sh) = Pow2(sh - 1) /\ (M \div Pow2(sh)) % 2 = 1)
                   THEN M \div Pow2(sh) + 1
                   ELSE M \div Pow2(sh) } })

\* the f32 nearest to (-1)^neg * M * 2^e, for an integer M >= 0
RoundPack(neg, M, e) ==
    The({ IF v[1] = 0 THEN Zero
          ELSE IF v[2] <= MantBits
          THEN [m |-> v[3] * v[1] * Pow2(MantBits - v[2]), e |-> v[4] - (MantBits - v[2])]
          ELSE RoundCut(v[3], v[1], v[4], v[2] - MantBits) :
          v \in { <<mag, BitLen(mag), IF neg THEN -1 ELSE 1, e>> : mag \in {M} } })

\* n as f32
FromInt(n) == RoundPack(n < 0, Abs(n), 0)

\* M shifted right by d bits; the bits shifted out leave the last bit set
ShiftRightSticky(M, d) ==
    IF d = 0 THEN M
    ELSE IF d > 30 THEN (IF M = 0 THEN 0 ELSE 1)
    ELSE LET q == M \div Pow2(d)
         IN  IF M % Pow2(d) # 0 /\ q % 2 = 0 THEN q + 1 ELSE q

FNeg(a) == [m |-> -a.m, e |-> a.e]

\* hi + lo for hi.e >= lo.e, neither 0; both operands carry three more bits:
\* guard, round and sticky
AddAligned(hi, lo) ==
    The({ IF (hi.m < 0) = (lo.m < 0)
          THEN RoundPack(hi.m < 0, v[1] + v[2], hi.e - 3)
          ELSE IF v[1] >= v[2]
               THEN RoundPack(hi.m < 0, v[1] - v[2], hi.e - 3)
               ELSE RoundPack(lo.m < 0, v[2] - v[1], hi.e - 3) :
          v \in { <<Abs(hi.m) * 8, ShiftRightSticky(Abs(lo.m) * 8, hi.e - lo.e)>> } })

\* a + b
FAdd(a, b) ==
    The({ IF v[1] = NaN \/ v[2] = NaN THEN NaN
          ELSE IF v[1].m = 0 THEN v[2]
          ELSE IF v[2].m = 0 THEN v[1]
          ELSE IF v[1].e >= v[2].e THEN AddAligned(v[1], v[2])
          ELSE AddAligned(v[2], v[1]) :
          v \in {<<a, b>>} })

\* a - b
FSub(a, b) == FAdd(a, FNeg(b))

\* k more bits of the quotient q, remainder r, of a division by B
RECURSIVE LongDiv(_, _, _, _)
LongDiv(q, r, B, k) ==
    IF k = 0 THEN <<q, r>>
    ELSE The({ LongDiv(v[1], v[2], B, k - 1) :
               v \in {<<2 * q + ((2 * r) \div B), (2 * r) % B>>} })

\* |A| / |B| for significands A and B: MantBits + 2 bits behind the point, a
\* remainder makes the quotient odd, so that it is no tie
DivAligned(neg, A, B, e) ==
    The({ RoundPack(neg, IF p[2] # 0 /\ p[1] % 2 = 0 THEN p[1] + 1 ELSE p[1], e) :
          p \in {LongDiv(A \div B, A % B, B, MantBits + 2)} })

\* a / b
FDiv(a, b) ==
    The({ IF v[1] = NaN \/ v[2] = NaN \/ v[2].m = 0 THEN NaN
          ELSE IF v[1].m = 0 THEN Zero
          ELSE DivAligned((v[1].m < 0) # (v[2].m < 0), Abs(v[1].m), Abs(v[2].m),
                          v[1].e - v[2].e - (MantBits + 2)) :
          v \in {<<a, b>>} })

\* a <= b for a, b >= 0
FLe(a, b) ==
    IF a.m = 0 THEN TRUE
    ELSE IF b.m = 0 THEN FALSE
    ELSE a.e < b.e \/ (a.e = b.e /\ a.m <= b.m)

FAbs(a) == [m |-> Abs(a.m), e |-> a.e]

\* a * 2^k
FScale(a, k) == IF a.m = 0 THEN a ELSE [m |-> a.m, e |-> a.e + k]

(***************************************************************************)
(* normalize_slice                                                         *)
(***************************************************************************)

\* slice.iter().fold(acc, |acc, f| acc + *f) over slice[lo..hi]; the range is
\* split in two so that the evaluation depth stays logarithmic, the additions
\* are still made left to right (left is the accumulator after slice[lo..mid],
\* bound to its value before the rest is folded)
RECURSIVE FoldAdd(_, _, _, _)
FoldAdd(slice, lo, hi, acc) ==
    IF lo > hi THEN acc
    ELSE IF lo = hi THEN FAdd(acc, slice[lo])
    ELSE LET mid == (lo + hi) \div 2
         IN  The({FoldAdd(slice, mid + 1, hi, left) :
                      left \in {FoldAdd(slice, lo, mid, acc)}})

SliceSum(slice) == FoldAdd(slice, 1, Len(slice), Zero)

\* let sum = ...; let mean = sum / slice.len() as f32
SliceMean(slice) ==
    The({FDiv(sum, FromInt(Len(slice))) : sum \in {SliceSum(slice)}})

\* mutant: slice.iter_mut().for_each(|f| *f += mean)
SubtractMeanAdds(slice, mean) == [i \in 1..Len(slice) |-> FAdd(slice[i], mean)]

\* slice.iter_mut().for_each(|f| *f -= mean)
SubtractMean(slice, mean) == [i \in 1..Len(slice) |-> FSub(slice[i], mean)]

normalize_slice(slice) ==
    The({[slice |-> SubtractMean(slice, mean), mean |-> mean] :
             mean \in {SliceMean(slice)}})

(***************************************************************************)
(* The analog input and the FFT collaborator                               *)
(***************************************************************************)

\* the signals the analog pin may carry during the acquisition
Waveforms == {"zero", "const1000", "fullscale", "alternating", "ramp"}

\* the k-th conversion of the one-shot sequence, SixteenBit resolution
Conv(w, k) ==
    CASE w = "zero"        -> 0
      [] w = "const1000"   -> 1000
      [] w = "fullscale"   -> U16Max
      [] w = "alternating" -> IF k % 2 = 0 THEN 0 ELSE U16Max
      [] w = "ramp"        -> (k * 64) % (U16Max + 1)

\* a complex bin with integral parts
Bin(re, im) == [re |-> re, im |-> im]

\* what microfft::real::rfft_1024 may hand back: HalfSize complex bins
Spectra ==
    { [k \in 1..HalfSize |-> Bin(0, 0)],
      [k \in 1..HalfSize |-> IF k = 2 THEN Bin(3, -4) ELSE Bin(0, 0)],
      [k \in 1..HalfSize |-> IF k = HalfSize THEN Bin(-5, 12) ELSE Bin(0, 1)] }

RECURSIVE SqrtFrom(_, _)
SqrtFrom(n, r) == IF (r + 1) * (r + 1) > n THEN r ELSE SqrtFrom(n, r + 1)

\* value.norm_sqr().sqrt(), rounded down to an integer
Magnitude(bin) == SqrtFrom(bin.re * bin.re + bin.im * bin.im, 0)

(***************************************************************************)
(* State                                                                   *)
(***************************************************************************)

\* content of a BUFFER slot that was never written
Uninit == -1

VARIABLES
    pc,           \* position of the CPU in main
    BUFFER,       \* static mut BUFFER in .axisram: Uninit or a u16 per slot,
                  \* slot i at position i + 1
    refs,         \* the typed references to BUFFER that are live
    slot,         \* cursor of the loop the CPU is in
    stream_en,    \* DMA1 stream 0 is enabled
    adc_dma,      \* the ADC runs its one-shot conversion sequence
    ndtr,         \* items the stream still has to move
    tcif,         \* transfer-complete flag of the stream
    waveform,     \* the signal on the analog pin
    flag_seen,    \* the poll loop has read the flag as true
    polled,       \* the poll loop has read the flag at least once
    starts,       \* number of times the stream was enabled
    convs,        \* number of conversion sequences triggered
    cpu_reads,    \* number of BUFFER elements the CPU has read
    sum,          \* the u32 sum of the samples
    samples,      \* [f32; SIZE], once declared
    arg,          \* the slice as it was handed to normalize_slice
    mean,         \* the mean normalize_slice returned
    spectrum,     \* the bins rfft_1024 returned
    log           \* the lines handed to the logger

vars == <<pc, BUFFER, refs, slot, stream_en, adc_dma, ndtr, tcif, waveform,
          flag_seen, polled, starts, convs, cpu_reads, sum, samples,
          arg, mean, spectrum, log>>

hw == <<stream_en, adc_dma, ndtr, tcif, waveform>>

analysis == <<sum, samples, arg, mean, spectrum>>

Slots == 0..(SIZE - 1)

Line(kind, i, mag, val) == [kind |-> kind, i |-> i, mag |-> mag, val |-> val]

Info(text) == Line(text, 0, 0, Zero)

\* DmaConfig::default().memory_increment(true).peripheral_burst(BurstMode::Burst4)
config == [memory_increment |-> TRUE, peripheral_burst |-> 4]

Init ==
    /\ pc = "startup"
    /\ BUFFER = [i \in 1..SIZE |-> Uninit]
    /\ refs = {}
    /\ slot = 0
    /\ stream_en = FALSE
    /\ adc_dma = FALSE
    /\ ndtr = 0
    /\ tcif = FALSE
    /\ waveform = "none"
    /\ flag_seen = FALSE
    /\ polled = FALSE
    /\ starts = 0
    /\ convs = 0
    /\ cpu_reads = 0
    /\ sum = 0
    /\ samples = <<>>
    /\ arg = <<>>
    /\ mean = Zero
    /\ spectrum = <<>>
    /\ log = <<>>

(***************************************************************************)
(* The CPU: main                                                           *)
(***************************************************************************)

\* logger init, Peripherals::take, and buf: &mut [MaybeUninit<u16>; SIZE]
Startup ==
    /\ pc = "startup"
    /\ refs' = refs \cup {"buf"}
    /\ pc' = "init_loop"
    /\ UNCHANGED <<BUFFER, slot, hw, flag_seen, polled, starts, convs,
                   cpu_reads, analysis, log>>

\* mutant: the loop stops one slot short
InitRangeShort == 0..(SIZE - 2)

\* the slots buf.iter_mut() visits
InitRange == Slots

\* slot.as_mut_ptr().write(0) for the next slot of buf.iter_mut()
InitSlot ==
    /\ pc = "init_loop"
    /\ slot \in InitRange
    /\ BUFFER' = [BUFFER EXCEPT ![slot + 1] = 0]
    /\ slot' = slot + 1
    /\ UNCHANGED <<pc, refs, hw, flag_seen, polled, starts, convs, cpu_reads,
                   analysis, log>>

\* the loop is over: adc_buffer = transmute(buf)
InitDone ==
    /\ pc = "init_loop"
    /\ slot \notin InitRange
    /\ refs' = (refs \ {"buf"}) \cup {"adc_buffer"}
    /\ slot' = 0
    /\ pc' = "setup"
    /\ UNCHANGED <<BUFFER, hw, flag_seen, polled, starts, convs, cpu_reads,
                   analysis, log>>

\* power, clocks, delay, ADC1 at sixteen bits, the analog pin, the DMA config
Setup ==
    /\ pc = "setup"
    /\ log' = log \o <<Info("Setup PWR..."), Info("Setup RCC...")>>
    /\ pc' = "transfer_init"
    /\ UNCHANGED <<BUFFER, refs, slot, hw, flag_seen, polled, starts, convs,
                   cpu_reads, analysis>>

\* Transfer::init(streams.0, adc1, &mut adc_buffer[..], None, config)
TransferInit ==
    /\ pc = "transfer_init"
    /\ refs' = (refs \ {"adc_buffer"}) \cup {"transfer"}
    /\ ndtr' = SIZE
    /\ log' = Append(log, Info("About to start transfer..."))
    /\ pc' = "start"
    /\ UNCHANGED <<BUFFER, slot, stream_en, adc_dma, tcif, waveform,
                   flag_seen, polled, starts, convs, cpu_reads, analysis>>

\* mutant: the closure runs with the stream never enabled
StartStreamNoEnable ==
    /\ pc = "start"
    /\ starts' = starts + 1
    /\ pc' = "start_closure"
    /\ UNCHANGED <<BUFFER, refs, slot, hw, flag_seen, polled, convs, cpu_reads,
                   analysis, log>>

\* transfer.start: the stream is enabled, then the closure runs
StartStream ==
    /\ pc = "start"
    /\ stream_en' = TRUE
    /\ starts' = starts + 1
    /\ pc' = "start_closure"
    /\ UNCHANGED <<BUFFER, refs, slot, adc_dma, ndtr, tcif, waveform,
                   flag_seen, polled, convs, cpu_reads, analysis, log>>

\* adc.start_conversion_dma(&mut channel, adc::AdcDmaMode::OneShot)
StartConversion ==
    /\ pc = "start_closure"
    /\ adc_dma' = TRUE
    /\ convs' = convs + 1
    /\ \E w \in Waveforms : waveform' = w
    /\ pc' = "take_target"
    /\ UNCHANGED <<BUFFER, refs, slot, stream_en, ndtr, tcif,
                   flag_seen, polled, starts, cpu_reads, analysis, log>>

\* target_buffer = transmute(&mut BUFFER)
TakeTarget ==
    /\ pc = "take_target"
    /\ refs' = refs \cup {"target_buffer"}
    /\ pc' = "poll"
    /\ UNCHANGED <<BUFFER, slot, hw, flag_seen, polled, starts, convs,
                   cpu_reads, analysis, log>>

\* mutant: no wait at all
PollAgainNever(flag) == FALSE

\* mutant: the wait gives up after a second look at the flag
PollAgainOnce(flag) == ~flag /\ ~polled

\* mutant: the loop never looks at the flag
PollAgainAlways(flag) == TRUE

\* the poll loop goes on while this holds
PollAgain(flag) == ~flag

\* while !transfer.get_transfer_complete_flag() {}: one read of the flag; the
\* borrow held by transfer ends with its last use
Poll ==
    /\ pc = "poll"
    /\ polled' = TRUE
    /\ IF PollAgain(tcif)
       THEN UNCHANGED <<pc, refs, flag_seen>>
       ELSE /\ pc' = "sum"
            /\ flag_seen' = tcif
            /\ refs' = refs \ {"transfer"}
    /\ UNCHANGED <<BUFFER, slot, hw, starts, convs, cpu_reads, analysis, log>>

\* what a read of BUFFER[i] may yield: any value when the slot was never written
ReadSlot(i) == IF BUFFER[i + 1] = Uninit THEN {0, U16Max} ELSE {BUFFER[i + 1]}

\* target_buffer.iter().fold(0u32, |acc, f| acc + *f as u32), one element;
\* the sum stays below SIZE * 2^16 = 2^26, the u32 never wraps
SumStep ==
    /\ pc = "sum"
    /\ \E v \in ReadSlot(slot) : sum' = sum + v
    /\ cpu_reads' = cpu_reads + 1
    /\ slot' = IF slot + 1 = SIZE THEN 0 ELSE slot + 1
    /\ pc' = IF slot + 1 = SIZE THEN "declare_samples" ELSE "sum"
    /\ UNCHANGED <<BUFFER, refs, hw, flag_seen, polled, starts, convs, samples,
                   arg, mean, spectrum, log>>

\* let mut samples: [f32; SIZE] = [0.0; SIZE]
DeclareSamples ==
    /\ pc = "declare_samples"
    /\ samples' = [i \in 1..SIZE |-> Zero]
    /\ pc' = "copy"
    /\ UNCHANGED <<BUFFER, refs, slot, hw, flag_seen, polled, starts, convs,
                   cpu_reads, sum, arg, mean, spectrum, log>>

\* samples[i] = *value as f32, one element (samples is indexed from 1 here)
CopyStep ==
    /\ pc = "copy"
    /\ \E v \in ReadSlot(slot) : samples' = [samples EXCEPT ![slot + 1] = FromInt(v)]
    /\ cpu_reads' = cpu_reads + 1
    /\ slot' = IF slot + 1 = SIZE THEN 0 ELSE slot + 1
    /\ pc' = IF slot + 1 = SIZE THEN "normalize" ELSE "copy"
    /\ UNCHANGED <<BUFFER, refs, hw, flag_seen, polled, starts, convs, sum,
                   arg, mean, spectrum, log>>

\* let mean = normalize_slice(&mut samples)
Normalize ==
    /\ pc = "normalize"
    /\ \E r \in {normalize_slice(samples)} :
           /\ samples' = r.slice
           /\ mean' = r.mean
    /\ arg' = samples
    /\ pc' = "log_mean"
    /\ UNCHANGED <<BUFFER, refs, slot, hw, flag_seen, polled, starts, convs,
                   cpu_reads, sum, spectrum, log>>

\* info!("Average: {}", mean)
LogMean ==
    /\ pc = "log_mean"
    /\ log' = Append(log, Line("Average", 0, 0, mean))
    /\ pc' = "rfft"
    /\ UNCHANGED <<BUFFER, refs, slot, hw, flag_seen, polled, starts, convs,
                   cpu_reads, analysis>>

\* let spectrum = microfft::real::rfft_1024(&mut samples): the transform is
\* made in place, spectrum is the memory of samples
Rfft ==
    /\ pc = "rfft"
    /\ \E s \in Spectra : spectrum' = s
    /\ samples' = <<>>
    /\ arg' = <<>>
    /\ pc' = "report"
    /\ UNCHANGED <<BUFFER, refs, slot, hw, flag_seen, polled, starts, convs,
                   cpu_reads, sum, mean, log>>

\* mutant: the index is counted from 1
BinLineOffByOne(i) == Line("bin", i + 1, Magnitude(spectrum[i + 1]), Zero)

\* the record of bin i
BinLine(i) == Line("bin", i, Magnitude(spectrum[i + 1]), Zero)

\* info!("{i},{}", value.norm_sqr().sqrt()); delay.delay_us(100), one bin
ReportStep ==
    /\ pc = "report"
    /\ log' = Append(log, BinLine(slot))
    /\ slot' = IF slot + 1 = HalfSize THEN 0 ELSE slot + 1
    /\ pc' = IF slot + 1 = HalfSize THEN "idle_delay" ELSE "report"
    /\ UNCHANGED <<BUFFER, refs, hw, flag_seen, polled, starts, convs,
                   cpu_reads, analysis>>

\* loop { delay.delay_ms(1000); ... }
IdleDelay ==
    /\ pc = "idle_delay"
    /\ pc' = "idle_wfi"
    /\ UNCHANGED <<BUFFER, refs, slot, hw, flag_seen, polled, starts, convs,
                   cpu_reads, analysis, log>>

\* mutant: the wake-up starts another acquisition
IdleWfiRestart ==
    /\ pc = "idle_wfi"
    /\ pc' = "start"
    /\ UNCHANGED <<BUFFER, refs, slot, hw, flag_seen, polled, starts, convs,
                   cpu_reads, analysis, log>>

\* loop { ...; cortex_m::asm::wfi() }: the core wakes on an event, if one comes
IdleWfi ==
    /\ pc = "idle_wfi"
    /\ pc' = "idle_delay"
    /\ UNCHANGED <<BUFFER, refs, slot, hw, flag_seen, polled, starts, convs,
                   cpu_reads, analysis, log>>

Cpu ==
    \/ Startup
    \/ InitSlot
    \/ InitDone
    \/ Setup
    \/ TransferInit
    \/ StartStream
    \/ StartConversion
    \/ TakeTarget
    \/ Poll
    \/ SumStep
    \/ DeclareSamples
    \/ CopyStep
    \/ Normalize
    \/ LogMean
    \/ Rfft
    \/ ReportStep
    \/ IdleDelay
    \/ IdleWfi

(***************************************************************************)
(* The hardware: DMA1 stream 0 fed by ADC1                                 *)
(***************************************************************************)

\* mutant: memory_increment(false)
DmaTargetFixed(k) == 0

\* the slot the k-th item of the transfer goes to
DmaTarget(k) == IF config.memory_increment THEN k ELSE 0

\* one conversion is moved from the ADC data register into BUFFER; with the
\* last item the stream raises the flag, disables itself and the one-shot
\* sequence of the ADC ends
DmaBeat ==
    /\ stream_en
    /\ adc_dma
    /\ ndtr > 0
    /\ LET k == SIZE - ndtr
       IN  BUFFER' = [BUFFER EXCEPT ![DmaTarget(k) + 1] = Conv(waveform, k)]
    /\ ndtr' = ndtr - 1
    /\ tcif' = (tcif \/ ndtr = 1)
    /\ stream_en' = (ndtr > 1)
    /\ adc_dma' = (ndtr > 1)
    /\ UNCHANGED <<pc, refs, slot, waveform, flag_seen, polled, starts, convs,
                   cpu_reads, analysis, log>>

Next == Cpu \/ DmaBeat

Spec == Init /\ [][Next]_vars

\* the CPU always takes its next step, and a healthy stream moves its items
LiveSpec == Spec /\ WF_vars(Cpu) /\ WF_vars(DmaBeat)

(***************************************************************************)
(* normalize_slice on its own: the slices it may be handed                 *)
(***************************************************************************)

\* longest slice of the exhaustive part of the inputs
MaxLen == 3

\* 0.5
Half == [m |-> Pow2(MantBits - 1), e |-> -MantBits]

NVals == {FromInt(v) : v \in {0, 1, -3, 1000, U16Max, 22369628}} \cup {Half}

\* every slice of up to MaxLen of these values, the empty one included, and
\* the constant slices of the length main uses
NInputs ==
    UNION {[1..n -> NVals] : n \in 0..MaxLen}
        \cup {[i \in 1..SIZE |-> FromInt(v)] : v \in {1000, U16Max}}

NInit ==
    /\ pc = "normalize"
    /\ samples \in NInputs
    /\ BUFFER = [i \in 1..SIZE |-> Uninit]
    /\ refs = {}
    /\ slot = 0
    /\ stream_en = FALSE
    /\ adc_dma = FALSE
    /\ ndtr = 0
    /\ tcif = FALSE
    /\ waveform = "none"
    /\ flag_seen = FALSE
    /\ polled = FALSE
    /\ starts = 0
    /\ convs = 0
    /\ cpu_reads = 0
    /\ sum = 0
    /\ arg = <<>>
    /\ mean = Zero
    /\ spectrum = <<>>
    /\ log = <<>>

NNext == Normalize

NSpec == NInit /\ [][NNext]_vars

(***************************************************************************)
(* Properties of normalize_slice, checked under NSpec                      *)
(***************************************************************************)

\* the call has returned: arg is the slice handed in, samples the slice as
\* normalize_slice left it, mean the value it returned
Returned == pc = "log_mean" /\ Len(arg) >= 1

\* a has an integral value below 2^30 in magnitude
IsInt(a) ==
    \/ a.m = 0
    \/ a.e \in 0..6
    \/ (-a.e) \in 1..(MantBits - 1) /\ a.m % Pow2(-a.e) = 0

IntVal(a) == IF a.e >= 0 THEN a.m * Pow2(a.e) ELSE a.m \div Pow2(-a.e)

AllInt(s) == \A i \in 1..Len(s) : IsInt(s[i])

\* the sum of s[lo..hi] in exact integer arithmetic
RECURSIVE IntSum(_, _, _)
IntSum(s, lo, hi) ==
    IF lo > hi THEN 0
    ELSE IF lo = hi THEN IntVal(s[lo])
    ELSE IntSum(s, lo, (lo + hi) \div 2) + IntSum(s, (lo + hi) \div 2 + 1, hi)

\* the integer n is a value of f32: its odd part has at most 24 bits
Representable(n) ==
    \E k \in 0..7 : n % Pow2(k) = 0 /\ Abs(n) \div Pow2(k) < Pow2(MantBits)

\* no addition of the fold rounds
ExactAccum(s) == \A k \in 1..Len(s) : Representable(IntSum(s, 1, k))

IsConstant(s) == \A i \in 1..Len(s) : s[i] = s[1]

\* the largest magnitude among the elements
RECURSIVE MaxAbs(_, _, _)
MaxAbs(s, lo, hi) ==
    IF lo = hi THEN FAbs(s[lo])
    ELSE LET l == MaxAbs(s, lo, (lo + hi) \div 2)
             r == MaxAbs(s, (lo + hi) \div 2 + 1, hi)
         IN  IF FLe(l, r) THEN r ELSE l

\* the slice keeps its length and no NaN appears
Shape == Len(samples) = Len(arg) /\ mean # NaN

\* the sum of the elements after the call is 0 up to rounding: at most
\* 8 n^2 2^-24 times the largest magnitude handed in
SumNearZero ==
    FLe(FAbs(SliceSum(samples)),
        FScale(MaxAbs(arg, 1, Len(arg)), 2 * BitLen(Len(arg)) - 21))

\* where the f32 sum is exact and the count divides it, the mean is the true
\* mean and every element is its true difference to the mean
ExactCase ==
    (AllInt(arg) /\ ExactAccum(arg) /\ IntSum(arg, 1, Len(arg)) % Len(arg) = 0) =>
        LET mu == IntSum(arg, 1, Len(arg)) \div Len(arg)
        IN  /\ mean = FromInt(mu)
            /\ \A i \in 1..Len(arg) : samples[i] = FromInt(IntVal(arg[i]) - mu)

\* a constant slice: the mean is V and the elements are 0 up to the rounding
\* of the sum, 2 n 2^-24 |V| at most
ConstantNear ==
    IsConstant(arg) =>
        LET tol == FScale(FAbs(arg[1]), BitLen(Len(arg)) - (MantBits - 1))
        IN  /\ FLe(FAbs(FSub(mean, arg[1])), tol)
            /\ \A i \in 1..Len(arg) : FLe(FAbs(samples[i]), tol)

\* a constant slice: the mean is V and the elements are 0, exactly
ConstantExact ==
    IsConstant(arg) =>
        /\ mean = arg[1]
        /\ \A i \in 1..Len(arg) : samples[i] = Zero

\* C9 as stated: normalize_slice on a non-empty slice returns the arithmetic
\* mean and replaces every element by its difference to the mean; for a
\* constant slice of value V it returns V and leaves every element 0; the
\* sum of the elements afterwards is 0 up to rounding.
C9_NormalizeExact ==
    Returned => Shape /\ ExactCase /\ ConstantExact /\ SumNearZero

\* C9 amended: as C9, but a constant slice of value V yields exactly V and
\* exactly 0 only where the f32 accumulation of the sum does not round;
\* otherwise the mean is V and the elements are 0 up to that rounding.
C9_Normalize ==
    Returned =>
        /\ Shape /\ ExactCase /\ SumNearZero /\ ConstantNear
        /\ (ExactAccum(arg) /\ AllInt(arg) => ConstantExact)

\* the slice of SIZE samples of value 1000 has been normalized to mean 1000
\* and all zeros
C9_Witness ==
    /\ Returned
    /\ Len(arg) = SIZE
    /\ IsConstant(arg)
    /\ arg[1] = FromInt(1000)
    /\ mean = FromInt(1000)
    /\ \A i \in 1..SIZE : samples[i] = Zero

(***************************************************************************)
(* Properties of main, checked under Spec and LiveSpec                     *)
(***************************************************************************)

\* the CPU has not left the poll loop yet
BeforeWait ==
    pc \in {"startup", "init_loop", "setup", "transfer_init", "start",
            "start_closure", "take_target", "poll"}

Idle == pc \in {"idle_delay", "idle_wfi"}

AllWritten == BUFFER \in [1..SIZE -> 0..U16Max]

\* the records of the report, in the order they were emitted
BinLines == SelectSeq(log, LAMBDA l : l.kind = "bin")

MeanLines == SelectSeq(log, LAMBDA l : l.kind = "Average")

\* C1: the poll loop is left only with the completion flag true, and the CPU
\* reads no element of BUFFER (the u32 fold, the widening copy) before it has
\* seen the flag true.
C1_NoEarlyExit ==
    /\ ~BeforeWait => (flag_seen /\ tcif)
    /\ cpu_reads > 0 => (flag_seen /\ tcif)
    /\ flag_seen => tcif

\* the CPU is in the widening copy, after the whole fold, having seen the flag
C1_Witness == pc = "copy" /\ cpu_reads > SIZE /\ flag_seen /\ polled

\* C2: one reference to BUFFER is live at a time: the transfer holds the
\* mutable borrow during the transfer, target_buffer is taken only after the
\* flag was seen true, and the two never exist together while the flag is
\* false.
C2_OneReference ==
    /\ Cardinality(refs) <= 1
    /\ "target_buffer" \in refs => flag_seen
    /\ ~({"transfer", "target_buffer"} \subseteq refs /\ ~tcif)

\* C3: when the initializer loop is over every slot holds 0; adc_buffer exists
\* and is handed to Transfer::init only with all SIZE slots written; neither
\* the CPU nor the DMA touches a buffer with a slot never written.
C3_Initialized ==
    /\ pc = "setup" => BUFFER = [i \in 1..SIZE |-> 0]
    /\ \/ refs \cap {"adc_buffer", "transfer", "target_buffer"} # {}
       \/ ndtr > 0 \/ stream_en \/ tcif \/ cpu_reads > 0
       => AllWritten
    /\ "buf" \in refs => \A i \in Slots : (BUFFER[i + 1] = 0) = (i < slot)

\* the loop is over and adc_buffer has just been produced over SIZE zeros
C3_Witness ==
    /\ pc = "setup"
    /\ refs = {"adc_buffer"}
    /\ BUFFER[1] = 0
    /\ BUFFER[SIZE] = 0

\* the conversions of a whole transfer, as u16 and widened to f32
Conversions == [w \in Waveforms |-> [k \in 1..SIZE |-> Conv(w, k - 1)]]

Widened == [w \in Waveforms |-> [k \in 1..SIZE |-> FromInt(Conv(w, k - 1))]]

\* C4: with the flag true the DMA has moved SIZE conversions, the i-th into
\* slot i and none elsewhere, so that no initialization zero is left and no
\* slot was written twice; what the CPU reads from slot i is conversion i.
C4_FullyOverwritten ==
    /\ [](tcif => ndtr = 0 /\ BUFFER = Conversions[waveform])
    /\ [](pc = "copy" => \A i \in 1..slot : samples[i] = Widened[waveform][i])
    /\ [](pc = "normalize" => samples = Widened[waveform])
    /\ [][ndtr' # ndtr =>
             \/ ndtr = 0 /\ ndtr' = SIZE /\ BUFFER' = BUFFER
             \/ /\ ndtr' = ndtr - 1
                /\ BUFFER' = [BUFFER EXCEPT ![SIZE - ndtr + 1] =
                                              Conv(waveform, SIZE - ndtr)]]_vars
    /\ [][starts > 0 /\ BUFFER' # BUFFER => ndtr' = ndtr - 1]_vars

\* the copy is over for an input that converts to 0 throughout: the zeros in
\* samples are conversions, not what the initializer left
C4_Witness ==
    /\ pc = "normalize"
    /\ tcif
    /\ waveform = "zero"
    /\ ndtr = 0
    /\ BUFFER[SIZE] = 0
    /\ samples[SIZE] = Zero

\* C5: the stream is enabled first, then one one-shot conversion sequence is
\* triggered, both before the first poll of the flag; the stream is started
\* once and the conversion triggered once, never with the stream inactive.
C5_Sequencing ==
    /\ starts <= 1
    /\ convs <= 1
    /\ convs <= starts
    /\ adc_dma => stream_en
    /\ pc = "start_closure" => (stream_en /\ starts = 1 /\ convs = 0)
    /\ (polled \/ ~BeforeWait) => (starts = 1 /\ convs = 1)
    /\ ~polled => pc \in {"startup", "init_loop", "setup", "transfer_init",
                          "start", "start_closure", "take_target", "poll"}

\* the first poll has been made, after one start and one trigger, and the
\* transfer is still running
C5_Witness ==
    pc = "poll" /\ polled /\ starts = 1 /\ convs = 1 /\ stream_en /\ adc_dma

\* C6: the report emits one record per bin, HalfSize in all, with the indices
\* 0, 1, ... in order, each with the magnitude of its bin, which is not
\* negative; the mean line comes before the first record and the idle loop
\* after the last.
C6_Report ==
    LET bins  == BinLines
        means == MeanLines
        first == IF means = <<>> THEN Len(log) + 1
                 ELSE CHOOSE k \in 1..Len(log) : log[k].kind = "Average"
    IN  /\ Len(bins) <= HalfSize
        /\ \A j \in 1..Len(bins) :
              LET l == bins[j]
                  n == spectrum[j].re * spectrum[j].re + spectrum[j].im * spectrum[j].im
              IN  /\ l.i = j - 1
                  /\ l.mag >= 0
                  /\ l.mag * l.mag <= n
                  /\ n < (l.mag + 1) * (l.mag + 1)
        /\ Len(means) <= 1
        /\ means # <<>> => means[1].val = mean
        /\ \A j \in 1..Len(log) : log[j].kind = "bin" => first < j
        /\ pc = "report" => Len(bins) = slot
        /\ Idle => Len(bins) = HalfSize

\* the idle loop has been entered after a report whose last record carries a
\* magnitude above 0
C6_Witness ==
    /\ pc = "idle_delay"
    /\ Len(BinLines) = HalfSize
    /\ BinLines[HalfSize].i = HalfSize - 1
    /\ BinLines[HalfSize].mag = 13
    /\ BinLines[1].mag = 1

\* C7: the idle loop is never left, and in it no transfer is started, no
\* conversion triggered, no element of BUFFER read or written and no record
\* emitted.
C7_IdleForever ==
    [][Idle => /\ Idle'
               /\ UNCHANGED <<starts, convs, cpu_reads, BUFFER, log, refs,
                              stream_en, adc_dma, ndtr, tcif>>]_vars

\* the core waits in wfi inside the idle loop
C7_Witness == pc = "idle_wfi" /\ Len(BinLines) = HalfSize

\* what a CPU stuck in the wait has done: it started the transfer once, read
\* nothing, reported nothing
Hung ==
    /\ BeforeWait
    /\ cpu_reads = 0
    /\ sum = 0
    /\ samples = <<>>
    /\ Len(MeanLines) = 0
    /\ Len(BinLines) = 0
    /\ starts <= 1
    /\ convs <= 1

\* C8: if the completion flag never becomes true the CPU stays in the poll
\* loop for ever: no error or timeout state, no retry, no read of BUFFER, no
\* mean line and no record.
C8_HangsWithoutFlag == ([]~tcif) => []Hung

\* the CPU polls a transfer that has stalled half way
C8_Witness ==
    pc = "poll" /\ polled /\ ~tcif /\ ndtr = HalfSize /\ cpu_reads = 0

\* C10: with a DMA that goes on moving items the CPU leaves the poll loop,
\* emits the HalfSize records and reaches the idle loop; nowhere before the
\* idle loop, the wait for the flag apart, is the CPU without a next step.
C10_ReachesIdle ==
    /\ <>(Idle /\ Len(BinLines) = HalfSize /\ Len(MeanLines) = 1)
    /\ []((~Idle /\ ~(pc = "poll" /\ polled /\ ~tcif)) => ENABLED <<Cpu>>_vars)

\* the idle loop has been reached with the mean line and every record out
C10_Witness ==
    Idle /\ Len(BinLines) = HalfSize /\ Len(MeanLines) = 1 /\ flag_seen
====
